---- MODULE Spec2Model ----
(***************************************************************************)
(* The short-link resolution and visit-recording subsystem of the URL      *)
(* shortener: the redirect route, the verify-password route, the visitor   *)
(* fingerprint, trackAnalytics, and the two MongoDB collections (urls and  *)
(* analytics) they share.  Every await of a handler is a separate step:    *)
(* the database executes the operation (Db... actions), then the handler's *)
(* continuation runs up to its next await.  The clock may advance between  *)
(* any two steps.                                                          *)
(***************************************************************************)
EXTENDS Integers, Sequences, FiniteSets, TLC

\* ------------------------------------------------------------------ bounds
NumProcs == 2
MaxRequests == 2
GateSlots == 1
MaxTime == 2
MaxFaults == 1
RegSlots == 2
MaxRegRequests == 2
MaxUrls == 2
SharedSlots == 1
SharedRequests == 1
DayLen == 2
ReportRequests == 1
MaxDrift == 1
ResponseRequests == 1

\* ------------------------------------------------------- values and strings
\* Header values are sequences of UTF-16 code units; Undefined is the value
\* of an absent header or property (no string equals it).
Undefined == <<0 - 1>>
Null == 0 - 1
NoAlias == "<undefined>"
NoPassword == "<undefined>"
NullUrl == [id |-> 0]
NoUser == 0
AbsentDate == 0 - 2

Falsy(v) == v = Undefined \/ v = <<>>

\* `${v}` of a template literal
TemplateStr(v) ==
  IF v = Undefined THEN <<117, 110, 100, 101, 102, 105, 110, 101, 100>> ELSE v

\* !password for a string or undefined
NoPw(pw) == pw = NoPassword \/ pw = ""

\* ------------------------------------------------------ generateVisitorId
\* hash = ((hash << 5) - hash) + char; hash = hash & hash   (32-bit wrap)
\* (h ranges over the one value of hash, so that hash is evaluated once)
HashStep(hash, char) ==
  LET Wrapped(h) ==
        LET lo  == h % (2^16)
            hi  == ((h - lo) \div (2^16)) % (2^16)
            lo2 == lo * 31 + char
            hi2 == (hi * 31 + (lo2 \div (2^16))) % (2^16)
            lo3 == lo2 % (2^16)
        IN  IF hi2 >= 2^15 THEN (hi2 - 2^16) * (2^16) + lo3 ELSE hi2 * (2^16) + lo3
  IN  CHOOSE r \in {Wrapped(h) : h \in {hash}} : TRUE

RECURSIVE HashFrom(_, _, _)
HashFrom(combined, i, hash) ==
  IF i > Len(combined) THEN hash
  ELSE HashFrom(combined, i + 1, HashStep(hash, combined[i]))

RECURSIVE ToBase36(_)
ToBase36(n) == IF n < 36 THEN <<n>> ELSE Append(ToBase36(n \div 36), n % 36)

\* Math.abs(hash).toString(36), as the sequence of base-36 digits
AbsToString36(hash) ==
  LET Digits(h) ==
        IF h = 0 - 2^30 - 2^30 THEN <<35, 18, 20, 0, 35, 20>>
        ELSE ToBase36(IF h < 0 THEN 0 - h ELSE h)
  IN  CHOOSE r \in {Digits(h) : h \in {hash}} : TRUE

\* Variant of ClientIp that tells req.ip from the socket's address
ClientIpOrSocket(req) ==
  IF Falsy(req.ip) THEN <<115>> \o TemplateStr(req.remoteAddress) ELSE req.ip

\* req.ip || req.connection.remoteAddress
ClientIp(req) == IF Falsy(req.ip) THEN req.remoteAddress ELSE req.ip

\* req.get(h) || ''
HeaderOrEmpty(v) == IF Falsy(v) THEN <<>> ELSE v

generateVisitorId(req) ==
  LET ip == ClientIp(req)
      userAgent == HeaderOrEmpty(req.userAgent)
      acceptLanguage == HeaderOrEmpty(req.acceptLanguage)
      combined == TemplateStr(ip) \o <<45>> \o userAgent \o <<45>> \o acceptLanguage
  IN  AbsToString36(HashFrom(combined, 1, 0))

\* ------------------------------------------------------------ Url model
\* Variant of isExpired with the comparison turned around
isExpiredFlipped(url, t) ==
  IF url.expiresAt = Null THEN FALSE ELSE t < url.expiresAt

\* Variant of isExpired that counts the instant expiresAt itself as expired
isExpiredAtInstant(url, t) == IF url.expiresAt = Null THEN FALSE ELSE t >= url.expiresAt

\* urlSchema.methods.isExpired, evaluated at instant t (new Date())
isExpired(url, t) ==
  IF url.expiresAt = Null THEN FALSE ELSE t > url.expiresAt

\* urlSchema.virtual('shortUrl')
shortUrl(url) == IF url.customAlias = NoAlias THEN url.shortId ELSE url.customAlias

\* A stored Url document with the schema's defaults for the counters
UrlDoc(id, originalUrl, shortId, customAlias, isActive, isPasswordProtected, password, expiresAt) ==
  [id |-> id, originalUrl |-> originalUrl, shortId |-> shortId,
   customAlias |-> customAlias, isActive |-> isActive,
   isPasswordProtected |-> isPasswordProtected, password |-> password,
   expiresAt |-> expiresAt, clicks |-> 0, uniqueVisitors |-> 0,
   lastAccessed |-> Null, userId |-> NoUser]

\* Variant of Inc that writes the operand ({ clicks: 1 } without $inc)
IncOverwrites(value, by) == by

\* The $inc update operator
Inc(value, by) == value + by

\* ------------------------------------------------------ Analytics model
\* Key of the unique compound index { urlId: 1, visitorId: 1 }
UniqueIndexKey(doc) == <<doc.urlId, doc.visitorId>>

\* E11000: the insert is rejected when the unique index already holds the key
DuplicateKey(doc, coll) ==
  \E i \in 1..Len(coll) : UniqueIndexKey(coll[i]) = UniqueIndexKey(doc)

\* Mongoose validation of the required paths of analyticsSchema; a required
\* String path rejects undefined and the empty string
RequiredString(v) == ~Falsy(v)
ValidAnalytics(doc) ==
  /\ doc.urlId # 0
  /\ doc.visitorId # <<>>
  /\ RequiredString(doc.ipAddress)
  /\ RequiredString(doc.userAgent)

\* ------------------------------------------------------------------ state
VARIABLES
  urls,        \* the urls collection: _id -> document
  analytics,   \* the analytics collection, in insertion order
  now,         \* wall clock (new Date())
  proc,        \* per request handler: position and local variables
  budget,      \* number of requests the environment may still send
  faults,      \* number of storage operations that failed so far
  overlapped,  \* history: some request arrived while another was in flight
  succ,        \* history: <<urlId, visitorId>> -> destinations returned
  uvIncs,      \* history: <<urlId, visitorId>> -> uniqueVisitors increments
  reg,         \* per /api/urls handler: position and local variables
  regBudget,   \* number of /api/urls requests the environment may still send
  nextId,      \* number of _id values handed out so far
  report,      \* the /api/analytics handler: position and local variables
  reportBudget \* number of /api/analytics requests the environment may still send

vars == <<urls, analytics, now, proc, budget, faults, overlapped, succ, uvIncs,
          reg, regBudget, nextId, report, reportBudget>>

Procs == DOMAIN proc

\* --------------------------------------------------------------- requests
ReqFull  == [ip |-> <<49>>, remoteAddress |-> <<49>>, userAgent |-> <<77>>, acceptLanguage |-> <<101>>]
ReqProxy == [ip |-> Undefined, remoteAddress |-> <<50>>, userAgent |-> <<77>>, acceptLanguage |-> Undefined]
ReqBare  == [ip |-> Undefined, remoteAddress |-> Undefined, userAgent |-> Undefined, acceptLanguage |-> Undefined]
Requests == {ReqFull, ReqProxy, ReqBare}

Routes == {"GET", "POST"}
Handles == {"tok1", "promo", "tok2", "nope"}
Passwords == {NoPassword, "", "pw1", "pw2"}

NoRes == [status |-> 0, body |-> "", shortId |-> "", originalUrl |-> ""]
Res(status, body, handle, originalUrl) ==
  [status |-> status, body |-> body, shortId |-> handle, originalUrl |-> originalUrl]

Idle ==
  [pc |-> "idle", route |-> "", shortId |-> "", password |-> NoPassword,
   req |-> ReqFull, url |-> NullUrl, visitorId |-> <<>>, existingVisit |-> FALSE,
   timestamp |-> Null, lastAccessed |-> Null, res |-> NoRes,
   inserted |-> FALSE, uvInc |-> FALSE, trackErr |-> "none", statsErr |-> FALSE,
   matchedExpired |-> FALSE, foundExpired |-> FALSE, gate |-> "none"]

\* Request body of POST /api/urls and PUT /api/urls/:id; "undef" marks an
\* absent field (isPasswordProtected is "undef", "true" or "false")
Body(originalUrl, customAlias, expiresAt, isPasswordProtected, password) ==
  [originalUrl |-> originalUrl, customAlias |-> customAlias, expiresAt |-> expiresAt,
   isPasswordProtected |-> isPasswordProtected, password |-> password]
NoBody == Body("", NoAlias, AbsentDate, "undef", NoPassword)

RegIdle ==
  [pc |-> "idle", op |-> "", user |-> NoUser, id |-> 0, body |-> NoBody,
   doc |-> NullUrl, res |-> NoRes, newId |-> 0, wrote |-> FALSE,
   dupToken |-> FALSE, dupAlias |-> FALSE]

ReportIdle ==
  [pc |-> "idle", route |-> "", user |-> NoUser, urlId |-> 0, period |-> "",
   endDate |-> Null, startDate |-> Null, url |-> NullUrl, urls |-> <<>>,
   events |-> <<>>, activeUrls |-> 0, res |-> [status |-> 0]]

Count(f, k) == IF k \in DOMAIN f THEN f[k] ELSE 0
Bump(f, k) == (k :> Count(f, k) + 1) @@ f

\* ------------------------------------------------------------------ Init
\* Stored links as POST /api/urls leaves them (counters 0, no events yet).
\* isActive is a schema field that the lookup filters on.
PlainUrl(id, shortId, alias) ==
  UrlDoc(id, "https://a", shortId, alias, TRUE, FALSE, NoPassword, Null)
LockedUrl(id, shortId, alias) ==
  UrlDoc(id, "https://b", shortId, alias, TRUE, TRUE, "pw1", Null)

\* Recording: an open link with an alias and a password-protected link
InitStores ==
  { (1 :> PlainUrl(1, "tok1", "promo")) @@ (2 :> LockedUrl(2, "tok2", NoAlias)) }

InitAll(stores, slots, requests, regSlots, regRequests) ==
  /\ urls \in stores
  /\ analytics = <<>>
  /\ now = 1
  /\ proc = [p \in 1..slots |-> Idle]
  /\ budget = requests
  /\ faults = 0
  /\ overlapped = FALSE
  /\ succ = <<>>
  /\ uvIncs = <<>>
  /\ reg = [s \in 1..regSlots |-> RegIdle]
  /\ regBudget = regRequests
  /\ nextId = Cardinality(DOMAIN urls)
  /\ report = ReportIdle
  /\ reportBudget = 0

InitWith(stores, slots, requests) == InitAll(stores, slots, requests, 0, 0)

Init == InitWith(InitStores, NumProcs, MaxRequests)

\* Gates: link 1 in every combination of isActive, password protection and
\* expiry (none, already past, reached when the clock advances), next to an
\* open link 2
GateStores ==
  { (1 :> UrlDoc(1, "https://a", "tok1", "promo", active, locked,
                 IF locked THEN "pw1" ELSE NoPassword, expiresAt))
    @@ (2 :> PlainUrl(2, "tok2", NoAlias)) :
    active \in BOOLEAN, locked \in BOOLEAN, expiresAt \in {Null, 0, 1} }

InitGates == InitWith(GateStores, GateSlots, MaxRequests)

\* ------------------------------------------------------- database queries
\* Url.findOne({ $or: [{ shortId }, { customAlias: shortId }], isActive: true })
HandleMatches(url, shortId) == url.shortId = shortId \/ url.customAlias = shortId
FindActiveByHandle(store, shortId) ==
  LET m == {id \in DOMAIN store : HandleMatches(store[id], shortId) /\ store[id].isActive}
  IN  IF m = {} THEN NullUrl ELSE store[CHOOSE id \in m : \A o \in m : id <= o]

\* Analytics.findOne({ urlId, visitorId })
FindVisit(coll, urlId, visitorId) ==
  \E i \in 1..Len(coll) : coll[i].urlId = urlId /\ coll[i].visitorId = visitorId

\* -------------------------------------------------------------- handlers
Set(p, r) == proc' = [proc EXCEPT ![p] = r]
RegSame == UNCHANGED <<reg, regBudget, nextId, report, reportBudget>>
Hist0 == UNCHANGED <<budget, faults, overlapped, succ, uvIncs>> /\ RegSame

\* A request arrives: router.get('/:shortId') or
\* router.post('/:shortId/verify-password') runs up to its first await.
Receive(p, route, shortId, password, req) ==
  /\ proc[p].pc = "idle"
  /\ \A q \in Procs : q < p => proc[q].pc # "idle"
  /\ budget > 0
  /\ budget' = budget - 1
  /\ overlapped' = (overlapped \/ \E q \in Procs : proc[q].pc # "idle")
  /\ LET r == [Idle EXCEPT !.route = route, !.shortId = shortId,
                           !.password = password, !.req = req]
     IN  IF route = "POST" /\ NoPw(password)
         THEN Set(p, [r EXCEPT !.pc = "respond",
                               !.res = Res(400, "Password is required", "", "")])
         ELSE Set(p, [r EXCEPT !.pc = "findUrl"])
  /\ UNCHANGED <<urls, analytics, now, faults, succ, uvIncs>> /\ RegSame

\* History: the link's expiresAt is set and earlier than instant t
PastExpiry(url, t) == url.expiresAt # Null /\ url.expiresAt < t

\* The database executes Url.findOne.  matchedExpired and foundExpired are
\* history: some stored link with this handle, respectively the link the
\* query returns, is past its expiresAt when the query runs.
DbFindUrl(p) ==
  /\ proc[p].pc = "findUrl"
  /\ LET h == proc[p].shortId
         m == {id \in DOMAIN urls : HandleMatches(urls[id], h)}
         found == FindActiveByHandle(urls, h)
     IN  Set(p, [proc[p] EXCEPT
              !.pc = "gates",
              !.url = found,
              !.matchedExpired = (\E id \in m : PastExpiry(urls[id], now)),
              !.foundExpired = (found.id # 0 /\ PastExpiry(found, now))])
  /\ UNCHANGED <<urls, analytics, now>> /\ Hist0

\* Url.findOne rejects: the handler's catch answers 500
ServerError(route) ==
  IF route = "GET" THEN Res(500, "Server error during redirect", "", "")
  ELSE Res(500, "Server error during password verification", "", "")

DbFindUrlFails(p) ==
  /\ proc[p].pc = "findUrl"
  /\ faults < MaxFaults
  /\ faults' = faults + 1
  /\ Set(p, [proc[p] EXCEPT !.pc = "respond", !.res = ServerError(proc[p].route)])
  /\ UNCHANGED <<urls, analytics, now, budget, overlapped, succ, uvIncs>> /\ RegSame

\* The gate a found, unexpired link puts before the request: the response
\* that ends the request, or NoRes when the request passes.
PasswordGate(route, url, password) ==
  IF route = "GET"
  THEN IF url.isPasswordProtected
       THEN IF NoPw(password)
            THEN Res(401, "Password required", shortUrl(url), "")
            ELSE IF password # url.password
                 THEN Res(401, "Incorrect password", "", "")
                 ELSE NoRes
       ELSE NoRes
  ELSE IF ~url.isPasswordProtected
       THEN Res(400, "This URL is not password protected", "", "")
       ELSE IF password # url.password
            THEN Res(401, "Incorrect password", "", "")
            ELSE NoRes

\* Variant of GateResponse that asks for the password before it looks at
\* expiresAt
GateResponsePasswordFirst(route, url, password, t) ==
  IF url.id = 0 THEN Res(404, "URL not found or inactive", "", "")
  ELSE IF PasswordGate(route, url, password) # NoRes THEN PasswordGate(route, url, password)
  ELSE IF isExpired(url, t) THEN Res(410, "This link has expired", "", "")
  ELSE NoRes

\* if (!url) 404; if (url.isExpired()) 410; then the password gate
GateResponse(route, url, password, t) ==
  IF url.id = 0 THEN Res(404, "URL not found or inactive", "", "")
  ELSE IF isExpired(url, t) THEN Res(410, "This link has expired", "", "")
  ELSE PasswordGate(route, url, password)

\* What the handler still reads of its locals once the gates are passed:
\* url._id and url.originalUrl, the request attributes and the visitor id.
\* gate records which gate was passed ("open": no password protection,
\* "password": the supplied password matched).
PassedGates(r, t) ==
  [r EXCEPT !.pc = "findVisit",
            !.visitorId = generateVisitorId(r.req),
            !.gate = IF r.url.isPasswordProtected THEN "password" ELSE "open",
            !.url = [id |-> r.url.id, originalUrl |-> r.url.originalUrl],
            !.shortId = "", !.password = NoPassword]

\* Variant of Gates whose Expired and password answers do not return: the
\* response is sent and the handler goes on to generateVisitorId
GatesNoReturn(p) ==
  /\ proc[p].pc = "gates"
  /\ LET g == GateResponse(proc[p].route, proc[p].url, proc[p].password, now)
     IN  IF g # NoRes /\ proc[p].url.id = 0
         THEN Set(p, [proc[p] EXCEPT !.pc = "respond", !.res = g])
         ELSE Set(p, [PassedGates(proc[p], now) EXCEPT !.res = g])
  /\ UNCHANGED <<urls, analytics, now>> /\ Hist0

\* Variant of Gates that counts a click for a request it refuses
GatesCountRefused(p) ==
  /\ proc[p].pc = "gates"
  /\ LET g == GateResponse(proc[p].route, proc[p].url, proc[p].password, now)
     IN  IF g # NoRes
         THEN /\ Set(p, [proc[p] EXCEPT !.pc = "respond", !.res = g])
              /\ urls' = IF proc[p].url.id \in DOMAIN urls
                          THEN [urls EXCEPT ![proc[p].url.id].clicks = Inc(@, 1)]
                          ELSE urls
         ELSE /\ Set(p, PassedGates(proc[p], now))
              /\ UNCHANGED urls
  /\ UNCHANGED <<analytics, now>> /\ Hist0

\* Continuation after Url.findOne: the gates, generateVisitorId, and
\* trackAnalytics up to its await of Analytics.findOne
Gates(p) ==
  /\ proc[p].pc = "gates"
  /\ LET g == GateResponse(proc[p].route, proc[p].url, proc[p].password, now)
     IN  IF g # NoRes
         THEN Set(p, [proc[p] EXCEPT !.pc = "respond", !.res = g])
         ELSE Set(p, PassedGates(proc[p], now))
  /\ UNCHANGED <<urls, analytics, now>> /\ Hist0

\* ------------------------------------------------------- trackAnalytics
\* Variant of trackAnalyticsCatch that lets the error out
trackAnalyticsRethrows(err) == err

\* What leaves trackAnalytics when an awaited call inside it rejects with
\* err: its catch logs the error and returns normally.
trackAnalyticsCatch(err) == "none"

\* Return of trackAnalytics into the route: the route's own catch answers
\* 500 if an error came out, else it takes new Date() and calls
\* Url.findByIdAndUpdate(url._id, { $inc: { clicks: 1 }, lastAccessed })
AfterTrack(r, err, t) ==
  IF trackAnalyticsCatch(err) # "none"
  THEN [r EXCEPT !.pc = "respond", !.trackErr = err, !.res = ServerError(r.route)]
  ELSE [r EXCEPT !.pc = "updateStats", !.trackErr = err, !.lastAccessed = t]

\* The database executes Analytics.findOne({ urlId, visitorId })
DbFindVisit(p) ==
  /\ proc[p].pc = "findVisit"
  /\ Set(p, [proc[p] EXCEPT
         !.pc = "buildEvent",
         !.existingVisit = FindVisit(analytics, proc[p].url.id, proc[p].visitorId)])
  /\ UNCHANGED <<urls, analytics, now>> /\ Hist0

DbFindVisitFails(p) ==
  /\ proc[p].pc = "findVisit"
  /\ faults < MaxFaults
  /\ faults' = faults + 1
  /\ Set(p, [proc[p] EXCEPT !.pc = "afterTrack", !.trackErr = "storage"])
  /\ UNCHANGED <<urls, analytics, now, budget, overlapped, succ, uvIncs>> /\ RegSame

\* Continuation: analyticsData is built (timestamp: new Date(),
\* isUnique: !existingVisit) and Analytics.create is called
BuildEvent(p) ==
  /\ proc[p].pc = "buildEvent"
  /\ Set(p, [proc[p] EXCEPT !.pc = "createVisit", !.timestamp = now])
  /\ UNCHANGED <<urls, analytics, now>> /\ Hist0

analyticsData(r) ==
  [urlId |-> r.url.id, visitorId |-> r.visitorId, ipAddress |-> ClientIp(r.req),
   userAgent |-> HeaderOrEmpty(r.req.userAgent), timestamp |-> r.timestamp,
   isUnique |-> ~r.existingVisit]

\* The document as stored (the fields the model reads back)
Stored(doc) ==
  [urlId |-> doc.urlId, visitorId |-> doc.visitorId,
   timestamp |-> doc.timestamp, isUnique |-> doc.isUnique]

\* Why Analytics.create(doc) rejects without a storage fault, or "none"
CreateError(doc, coll) ==
  IF ~ValidAnalytics(doc) THEN "validation"
  ELSE IF DuplicateKey(doc, coll) THEN "duplicate"
  ELSE "none"

\* Analytics.create: validation, then the insert under the unique index
DbCreateVisit(p) ==
  /\ proc[p].pc = "createVisit"
  /\ LET doc == analyticsData(proc[p])
         e == CreateError(doc, analytics)
     IN  IF e # "none"
         THEN /\ Set(p, [proc[p] EXCEPT !.pc = "afterTrack", !.trackErr = e])
              /\ UNCHANGED analytics
         ELSE /\ analytics' = Append(analytics, Stored(doc))
              /\ Set(p, [proc[p] EXCEPT !.pc = "afterCreate", !.inserted = TRUE])
  /\ UNCHANGED <<urls, now>> /\ Hist0

DbCreateVisitFails(p) ==
  /\ proc[p].pc = "createVisit"
  /\ faults < MaxFaults
  /\ faults' = faults + 1
  /\ Set(p, [proc[p] EXCEPT !.pc = "afterTrack", !.trackErr = "storage"])
  /\ UNCHANGED <<urls, analytics, now, budget, overlapped, succ, uvIncs>> /\ RegSame

\* Continuation after Analytics.create: if (!existingVisit) the
\* uniqueVisitors increment is issued, else trackAnalytics returns
AfterCreate(p) ==
  /\ proc[p].pc = "afterCreate"
  /\ IF ~proc[p].existingVisit
     THEN Set(p, [proc[p] EXCEPT !.pc = "incUnique"])
     ELSE Set(p, AfterTrack(proc[p], "none", now))
  /\ UNCHANGED <<urls, analytics, now>> /\ Hist0

\* Url.findByIdAndUpdate(urlId, { $inc: { uniqueVisitors: 1 } })
DbIncUnique(p) ==
  /\ proc[p].pc = "incUnique"
  /\ LET id == proc[p].url.id
     IN  /\ urls' = IF id \in DOMAIN urls
                    THEN [urls EXCEPT ![id].uniqueVisitors = Inc(@, 1)]
                    ELSE urls
         /\ uvIncs' = IF id \in DOMAIN urls
                      THEN Bump(uvIncs, <<id, proc[p].visitorId>>)
                      ELSE uvIncs
  /\ Set(p, [proc[p] EXCEPT !.pc = "afterTrack", !.uvInc = TRUE])
  /\ UNCHANGED <<analytics, now, budget, faults, overlapped, succ>> /\ RegSame

DbIncUniqueFails(p) ==
  /\ proc[p].pc = "incUnique"
  /\ faults < MaxFaults
  /\ faults' = faults + 1
  /\ Set(p, [proc[p] EXCEPT !.pc = "afterTrack", !.trackErr = "storage"])
  /\ UNCHANGED <<urls, analytics, now, budget, overlapped, succ, uvIncs>> /\ RegSame

\* trackAnalytics returns (normally or through its catch)
TrackReturns(p) ==
  /\ proc[p].pc = "afterTrack"
  /\ Set(p, AfterTrack(proc[p], proc[p].trackErr, now))
  /\ UNCHANGED <<urls, analytics, now>> /\ Hist0

\* ------------------------------------------------------------- Url stats
\* Variant of Success that leaves the destination out of the response
SuccessWithoutUrl(route, url) ==
  IF route = "GET" THEN Res(302, "redirect", "", "") ELSE Res(200, "success", "", "")

\* res.redirect(url.originalUrl) / res.json({ success: true, originalUrl })
Success(route, url) ==
  IF route = "GET" THEN Res(302, "redirect", "", url.originalUrl)
  ELSE Res(200, "success", "", url.originalUrl)

\* Url.findByIdAndUpdate(url._id, { $inc: { clicks: 1 }, lastAccessed }),
\* then res.redirect(url.originalUrl) / res.json({ success, originalUrl })
DbUpdateStats(p) ==
  /\ proc[p].pc = "updateStats"
  /\ LET id == proc[p].url.id
     IN  urls' = IF id \in DOMAIN urls
                 THEN [urls EXCEPT ![id].clicks = Inc(@, 1),
                                   ![id].lastAccessed = proc[p].lastAccessed]
                 ELSE urls
  /\ Set(p, [proc[p] EXCEPT !.pc = "respond",
                            !.res = Success(proc[p].route, proc[p].url)])
  /\ UNCHANGED <<analytics, now>> /\ Hist0

\* The stats update rejects inside the route's try: the catch answers 500
DbUpdateStatsFails(p) ==
  /\ proc[p].pc = "updateStats"
  /\ faults < MaxFaults
  /\ faults' = faults + 1
  /\ Set(p, [proc[p] EXCEPT !.pc = "respond", !.statsErr = TRUE,
                            !.res = ServerError(proc[p].route)])
  /\ UNCHANGED <<urls, analytics, now, budget, overlapped, succ, uvIncs>> /\ RegSame

IsSuccess(res) == res.status = 302 \/ res.status = 200

\* The response leaves the server; the handler is free again
Respond(p) ==
  /\ proc[p].pc = "respond"
  /\ succ' = IF IsSuccess(proc[p].res)
             THEN Bump(succ, <<proc[p].url.id, proc[p].visitorId>>)
             ELSE succ
  /\ Set(p, Idle)
  /\ UNCHANGED <<urls, analytics, now, budget, faults, overlapped, uvIncs>> /\ RegSame

\* Wall-clock time passes
Tick ==
  /\ now < MaxTime
  /\ now' = now + 1
  /\ UNCHANGED <<urls, analytics, proc>> /\ Hist0

Step ==
  \/ \E p \in Procs : DbFindUrl(p)
  \/ \E p \in Procs : DbFindUrlFails(p)
  \/ \E p \in Procs : Gates(p)
  \/ \E p \in Procs : DbFindVisit(p)
  \/ \E p \in Procs : DbFindVisitFails(p)
  \/ \E p \in Procs : BuildEvent(p)
  \/ \E p \in Procs : DbCreateVisit(p)
  \/ \E p \in Procs : DbCreateVisitFails(p)
  \/ \E p \in Procs : AfterCreate(p)
  \/ \E p \in Procs : DbIncUnique(p)
  \/ \E p \in Procs : DbIncUniqueFails(p)
  \/ \E p \in Procs : TrackReturns(p)
  \/ \E p \in Procs : DbUpdateStats(p)
  \/ \E p \in Procs : DbUpdateStatsFails(p)
  \/ \E p \in Procs : Respond(p)
  \/ Tick

\* Recording and concurrency: requests that can pass the gates of the two
\* stored links, from every request profile, on NumProcs concurrent handlers
Attempts ==
  { [route |-> "GET", shortId |-> "promo", password |-> NoPassword],
    [route |-> "GET", shortId |-> "tok2", password |-> "pw1"],
    [route |-> "POST", shortId |-> "tok2", password |-> "pw1"] }

Next ==
  \/ \E p \in Procs, a \in Attempts, req \in Requests :
        Receive(p, a.route, a.shortId, a.password, req)
  \/ Step

Spec == Init /\ [][Next]_vars

\* Gates: every route, handle and password against every stored link
NextGates ==
  \/ \E p \in Procs, route \in Routes, shortId \in Handles,
        password \in Passwords, req \in Requests :
        Receive(p, route, shortId, password, req)
  \/ Step

SpecGates == InitGates /\ [][NextGates]_vars

\* The steps of handler p.  An awaited storage call returns or fails, and a
\* continuation that is ready runs: the steps of a handler are weakly fair.
HandlerStep(p) ==
  \/ DbFindUrl(p) \/ DbFindUrlFails(p)
  \/ Gates(p)
  \/ DbFindVisit(p) \/ DbFindVisitFails(p)
  \/ BuildEvent(p)
  \/ DbCreateVisit(p) \/ DbCreateVisitFails(p)
  \/ AfterCreate(p)
  \/ DbIncUnique(p) \/ DbIncUniqueFails(p)
  \/ TrackReturns(p)
  \/ DbUpdateStats(p) \/ DbUpdateStatsFails(p)
  \/ Respond(p)

\* Responses: one request at a time, every route, handle and password
\* against every stored link of GateStores
InitResponses == InitWith(GateStores, GateSlots, ResponseRequests)
SpecResponses ==
  /\ InitResponses /\ [][NextGates]_vars
  /\ \A p \in 1..GateSlots : WF_vars(HandlerStep(p))

\* Visitor keys: requests that give the same address, User-Agent and
\* Accept-Language in different ways, and requests that leave them out or
\* give them empty, on NumProcs concurrent handlers
ReqDirect == [ip |-> Undefined, remoteAddress |-> <<49>>, userAgent |-> <<77>>, acceptLanguage |-> <<101>>]
ReqEmpty  == [ip |-> <<>>, remoteAddress |-> <<>>, userAgent |-> <<>>, acceptLanguage |-> <<>>]
VisitorRequests == {ReqFull, ReqDirect, ReqBare, ReqEmpty}

NextVisitor ==
  \/ \E p \in Procs, req \in VisitorRequests : Receive(p, "GET", "promo", NoPassword, req)
  \/ Step

SpecVisitor == Init /\ [][NextVisitor]_vars

TypeOK ==
  /\ now \in 1..(MaxTime + 1)
  /\ budget \in 0..MaxRequests

\* ------------------------------------------------- link registry (urls.js)
\* Handles are strings over the alphabet [A-Za-z0-9_-]; nanoid(8) draws tokens
\* from that same alphabet, so one small set stands for both tokens and aliases
RegHandles == {"h1", "h2", "h3"}
RegUsers == {1, 2}

RegSet(s, r) == reg' = [reg EXCEPT ![s] = r]
RegRes(r, res) == [r EXCEPT !.pc = "respond", !.res = res]
RegFrame0 ==
  UNCHANGED <<now, proc, budget, faults, overlapped, succ, uvIncs, report, reportBudget>>
RegFrame == UNCHANGED analytics /\ RegFrame0

AliasTaken == Res(400, "Custom alias is already taken", "", "")
PasswordRequired ==
  Res(400, "Password is required when password protection is enabled", "", "")
UrlNotFound == Res(404, "URL not found", "", "")
CreateFailed == Res(500, "Server error while creating URL", "", "")
UpdateFailed == Res(500, "Server error while updating URL", "", "")
Created(doc) == Res(201, "URL shortened successfully", shortUrl(doc), doc.originalUrl)
Updated == Res(200, "URL updated successfully", "", "")
Deleted == Res(200, "URL deleted successfully", "", "")
ValidationFailed ==
  Res(400, "errors: Password is required when password protection is enabled", "", "")

\* body('password').optional().isLength({ min: 1 }): a password field that is
\* present must not be empty (the other validators are met by every body
\* the model sends)
ValidBody(body) == body.password # ""

\* Url.findOne({ $or: [{ customAlias }, { shortId: customAlias }] })
AliasTakenOnCreate(store, customAlias) ==
  \E id \in DOMAIN store :
     store[id].customAlias = customAlias \/ store[id].shortId = customAlias

\* The same query with _id: { $ne: req.params.id }
AliasTakenOnUpdate(store, customAlias, ownId) ==
  \E id \in DOMAIN store \ {ownId} :
     store[id].customAlias = customAlias \/ store[id].shortId = customAlias

\* Variant of PasswordMissing without the check
PasswordMissingUnchecked(body) == FALSE

\* if (isPasswordProtected && !password)
PasswordMissing(body) == body.isPasswordProtected = "true" /\ NoPw(body.password)

\* expiresAt ? new Date(expiresAt) : null
ToDate(expiresAt) == IF expiresAt = AbsentDate \/ expiresAt = Null THEN Null ELSE expiresAt

\* The document built by new Url(urlData); shortId is the default nanoid(8)
urlData(body, user, token) ==
  [UrlDoc(0, body.originalUrl, token, body.customAlias, TRUE,
          body.isPasswordProtected = "true",
          IF body.isPasswordProtected = "true" THEN body.password ELSE NoPassword,
          ToDate(body.expiresAt))
     EXCEPT !.userId = user]

\* Unique index on shortId, unique sparse index on customAlias
DuplicateShortId(store, doc, ownId) ==
  \E id \in DOMAIN store \ {ownId} : store[id].shortId = doc.shortId
DuplicateCustomAlias(store, doc, ownId) ==
  /\ doc.customAlias # NoAlias
  /\ \E id \in DOMAIN store \ {ownId} : store[id].customAlias = doc.customAlias
DuplicateUrlKey(store, doc, ownId) ==
  DuplicateShortId(store, doc, ownId) \/ DuplicateCustomAlias(store, doc, ownId)

RegReceive(s, r) ==
  /\ regBudget > 0
  /\ reg[s].pc = "idle"
  /\ \A q \in DOMAIN reg : q < s => reg[q].pc # "idle"
  /\ regBudget' = regBudget - 1
  /\ RegSet(s, r)
  /\ UNCHANGED <<urls, nextId>> /\ RegFrame

\* POST /api/urls after the alias check: password check, then new Url(urlData)
CreateContinue(r, token) ==
  IF PasswordMissing(r.body) THEN RegRes(r, PasswordRequired)
  ELSE [r EXCEPT !.pc = "save", !.doc = urlData(r.body, r.user, token)]

\* POST /api/urls up to its first await
ReceiveCreate(s, user, body, token) ==
  LET r == [RegIdle EXCEPT !.op = "create", !.user = user, !.body = body] IN
  RegReceive(s, IF ~ValidBody(body) THEN RegRes(r, ValidationFailed)
                ELSE IF body.customAlias # NoAlias
                THEN [r EXCEPT !.pc = "aliasCheck"]
                ELSE CreateContinue(r, token))

\* await Url.findOne(alias or token equal to customAlias), and what follows
DbCreateAliasCheck(s, token) ==
  /\ reg[s].pc = "aliasCheck" /\ reg[s].op = "create"
  /\ RegSet(s, IF AliasTakenOnCreate(urls, reg[s].body.customAlias)
               THEN RegRes(reg[s], AliasTaken)
               ELSE CreateContinue(reg[s], token))
  /\ UNCHANGED <<urls, regBudget, nextId>> /\ RegFrame

\* await url.save(): the indexes reject a duplicate key, the catch answers 500
DbSave(s) ==
  /\ reg[s].pc = "save"
  /\ LET id == nextId + 1
         doc == [reg[s].doc EXCEPT !.id = id] IN
     IF DuplicateUrlKey(urls, doc, id)
     THEN /\ RegSet(s, [RegRes(reg[s], CreateFailed) EXCEPT
                            !.dupToken = DuplicateShortId(urls, doc, id),
                            !.dupAlias = DuplicateCustomAlias(urls, doc, id)])
          /\ UNCHANGED <<urls, nextId>>
     ELSE /\ urls' = [i \in DOMAIN urls \cup {id} |-> IF i = id THEN doc ELSE urls[i]]
          /\ nextId' = id
          /\ RegSet(s, [RegRes(reg[s], Created(doc)) EXCEPT !.newId = id, !.wrote = TRUE])
  /\ UNCHANGED regBudget /\ RegFrame

\* PUT /api/urls/:id and DELETE /api/urls/:id up to their first await
ReceiveUpdate(s, user, id, body) ==
  LET r == [RegIdle EXCEPT !.op = "update", !.user = user, !.id = id, !.body = body] IN
  RegReceive(s, IF ~ValidBody(body) THEN RegRes(r, ValidationFailed)
                ELSE [r EXCEPT !.pc = "findOwn"])

ReceiveDelete(s, user, id) ==
  RegReceive(s, [RegIdle EXCEPT !.pc = "delete", !.op = "delete", !.user = user,
                                !.id = id])

\* Variant of OwnedBy that filters on _id only
OwnedByAnyone(store, id, user) == id \in DOMAIN store

\* The filter { _id: req.params.id, userId: req.user._id }
OwnedBy(store, id, user) == id \in DOMAIN store /\ store[id].userId = user

\* PUT after the password check: the write is next
UpdateContinue(r) ==
  IF PasswordMissing(r.body) THEN RegRes(r, PasswordRequired)
  ELSE [r EXCEPT !.pc = "write"]

\* await Url.findOne(own link), and what follows up to the next await
DbFindOwn(s) ==
  /\ reg[s].pc = "findOwn"
  /\ LET r == reg[s]
         customAlias == r.body.customAlias IN
     RegSet(s, IF ~OwnedBy(urls, r.id, r.user) THEN RegRes(r, UrlNotFound)
               ELSE IF customAlias # NoAlias /\ customAlias # urls[r.id].customAlias
               THEN [r EXCEPT !.pc = "aliasCheck"]
               ELSE UpdateContinue(r))
  /\ UNCHANGED <<urls, regBudget, nextId>> /\ RegFrame

DbUpdateAliasCheck(s) ==
  /\ reg[s].pc = "aliasCheck" /\ reg[s].op = "update"
  /\ RegSet(s, IF AliasTakenOnUpdate(urls, reg[s].body.customAlias, reg[s].id)
               THEN RegRes(reg[s], AliasTaken)
               ELSE UpdateContinue(reg[s]))
  /\ UNCHANGED <<urls, regBudget, nextId>> /\ RegFrame

\* Variant of updateFields that writes the counters back at their defaults
updateFieldsWithCounters(url, body) ==
  [url EXCEPT
     !.originalUrl = IF body.originalUrl # "" THEN body.originalUrl ELSE @,
     !.expiresAt = IF body.expiresAt # AbsentDate THEN ToDate(body.expiresAt) ELSE @,
     !.clicks = 0, !.uniqueVisitors = 0]

\* Variant of updateFields that writes all five fields, given or not
updateFieldsAllFive(url, body) ==
  [url EXCEPT
     !.originalUrl = IF body.originalUrl # "" THEN body.originalUrl ELSE @,
     !.customAlias = body.customAlias,
     !.expiresAt = IF body.expiresAt # AbsentDate THEN ToDate(body.expiresAt) ELSE Null,
     !.isPasswordProtected = (body.isPasswordProtected = "true"),
     !.password = body.password]

\* updateFields: only the fields the body gives are written
updateFields(url, body) ==
  [url EXCEPT
     !.originalUrl = IF body.originalUrl # "" THEN body.originalUrl ELSE @,
     !.customAlias = IF body.customAlias # NoAlias THEN body.customAlias ELSE @,
     !.expiresAt = IF body.expiresAt # AbsentDate THEN ToDate(body.expiresAt) ELSE @,
     !.isPasswordProtected =
        IF body.isPasswordProtected # "undef" THEN body.isPasswordProtected = "true" ELSE @,
     !.password = IF body.password # NoPassword THEN body.password ELSE @]

\* await Url.findByIdAndUpdate(id, updateFields, { new: true, runValidators: true })
DbWrite(s) ==
  /\ reg[s].pc = "write"
  /\ LET r == reg[s] IN
     IF r.id \notin DOMAIN urls
     THEN /\ RegSet(s, RegRes(r, Updated))
          /\ UNCHANGED urls
     ELSE LET doc == updateFields(urls[r.id], r.body) IN
          IF r.body.customAlias # NoAlias /\ DuplicateUrlKey(urls, doc, r.id)
          THEN /\ RegSet(s, [RegRes(r, UpdateFailed) EXCEPT !.dupAlias = TRUE])
               /\ UNCHANGED urls
          ELSE /\ urls' = [urls EXCEPT ![r.id] = doc]
               /\ RegSet(s, [RegRes(r, Updated) EXCEPT !.wrote = TRUE])
  /\ UNCHANGED <<regBudget, nextId>> /\ RegFrame

\* Variant of EventsAfterDelete that removes the events of the deleted link
EventsDeletedWithUrl(coll, id) == SelectSeq(coll, LAMBDA e : e.urlId # id)

\* The analytics collection after DELETE /api/urls/:id removed link id: the
\* route issues no operation on it
EventsAfterDelete(coll, id) == coll

\* await Url.findOneAndDelete({ _id, userId })
DbDelete(s) ==
  /\ reg[s].pc = "delete"
  /\ LET r == reg[s] IN
     IF OwnedBy(urls, r.id, r.user)
     THEN /\ urls' = [i \in DOMAIN urls \ {r.id} |-> urls[i]]
          /\ analytics' = EventsAfterDelete(analytics, r.id)
          /\ RegSet(s, [RegRes(r, Deleted) EXCEPT !.wrote = TRUE])
     ELSE /\ RegSet(s, RegRes(r, UrlNotFound))
          /\ UNCHANGED <<urls, analytics>>
  /\ UNCHANGED <<regBudget, nextId>> /\ RegFrame0

\* The response of an /api/urls handler leaves the server
RegRespond(s) ==
  /\ reg[s].pc = "respond"
  /\ RegSet(s, RegIdle)
  /\ UNCHANGED <<urls, regBudget, nextId>> /\ RegFrame

RegStep ==
  \/ \E s \in DOMAIN reg, token \in RegHandles : DbCreateAliasCheck(s, token)
  \/ \E s \in DOMAIN reg : DbSave(s)
  \/ \E s \in DOMAIN reg : DbFindOwn(s)
  \/ \E s \in DOMAIN reg : DbUpdateAliasCheck(s)
  \/ \E s \in DOMAIN reg : DbWrite(s)
  \/ \E s \in DOMAIN reg : DbDelete(s)
  \/ \E s \in DOMAIN reg : RegRespond(s)

\* Bodies that pass the express-validator chain of the route
FlagInputs ==
  { <<"undef", NoPassword>>, <<"true", "pw1">>, <<"true", NoPassword>>,
    <<"true", "">>, <<"false", NoPassword>>, <<"undef", "pw2">> }
AliasInputs == {NoAlias, "h2", "h3"}
CreateBodies ==
  { Body("https://a", a, AbsentDate, f[1], f[2]) : a \in AliasInputs, f \in FlagInputs }
UpdateBodies ==
  { Body("", a, AbsentDate, f[1], f[2]) : a \in AliasInputs, f \in FlagInputs }
    \cup { Body("https://b", NoAlias, AbsentDate, "undef", NoPassword) }
Creators == {NoUser, 1}
UrlIds == 1..MaxUrls

\* A link as POST /api/urls leaves it for a signed-in user
OwnedUrl(id, shortId, alias, user) == [PlainUrl(id, shortId, alias) EXCEPT !.userId = user]
RegStores == { <<>>, <<OwnedUrl(1, "h1", "h2", 1)>> }
InitRegistry == InitAll(RegStores, 0, 0, RegSlots, MaxRegRequests)

NextRegistry ==
  \/ \E s \in DOMAIN reg, user \in Creators, body \in CreateBodies, token \in RegHandles :
        ReceiveCreate(s, user, body, token)
  \/ \E s \in DOMAIN reg, user \in RegUsers, id \in UrlIds, body \in UpdateBodies :
        ReceiveUpdate(s, user, id, body)
  \/ \E s \in DOMAIN reg, user \in RegUsers, id \in UrlIds : ReceiveDelete(s, user, id)
  \/ RegStep

SpecRegistry == InitRegistry /\ [][NextRegistry]_vars

\* Registry and resolution together: one /api/urls handler next to one
\* resolution handler on the link of RegStores
SharedStores ==
  { <<[OwnedUrl(1, "h1", "h2", 1) EXCEPT !.expiresAt = e]>> : e \in {Null, 1} }
InitShared == InitAll(SharedStores, SharedSlots, SharedRequests, SharedSlots, SharedRequests)
SharedAttempts ==
  { [route |-> "GET", shortId |-> "h2", password |-> NoPassword],
    [route |-> "GET", shortId |-> "h3", password |-> NoPassword],
    [route |-> "POST", shortId |-> "h1", password |-> "pw1"] }

\* Bodies that give expiresAt: instants before, at and after the first
\* instant of the clock
ExpiryCreateBodies ==
  { Body("https://c", NoAlias, e, "undef", NoPassword) : e \in {0, 1} }
ExpiryUpdateBodies ==
  { Body("", NoAlias, e, "undef", NoPassword) : e \in {0, 2} }

NextShared ==
  \/ \E p \in Procs, a \in SharedAttempts, req \in Requests :
        Receive(p, a.route, a.shortId, a.password, req)
  \/ Step
  \/ NextRegistry
  \/ \E s \in DOMAIN reg, user \in Creators, body \in ExpiryCreateBodies, token \in RegHandles :
        ReceiveCreate(s, user, body, token)
  \/ \E s \in DOMAIN reg, user \in RegUsers, id \in UrlIds, body \in ExpiryUpdateBodies :
        ReceiveUpdate(s, user, id, body)

SpecShared == InitShared /\ [][NextShared]_vars

\* ------------------------------------------- analytics (analytics.js)
\* Instants count in steps of the clock; a calendar day has DayLen of them
Day(t) == t \div DayLen
Days(n) == n * DayLen

\* The switch on period of GET /api/analytics/url/:urlId (days)
SummaryWindow(period) ==
  CASE period = "24h" -> 1
    [] period = "7d"  -> 7
    [] period = "30d" -> 30
    [] period = "90d" -> 90
    [] OTHER -> 7

\* The switch on period of GET /api/analytics/dashboard (days): it has no
\* case for '90d'
DashboardWindow(period) ==
  CASE period = "24h" -> 1
    [] period = "7d"  -> 7
    [] period = "30d" -> 30
    [] OTHER -> 7

\* Analytics.find({ urlId in ids, timestamp: { $gte: startDate, $lte: endDate } })
FindEvents(coll, ids, startDate, endDate) ==
  SelectSeq(coll, LAMBDA a : a.urlId \in ids /\ a.timestamp >= startDate
                             /\ a.timestamp <= endDate)

\* processTimeSeriesData: its while loop from current (at first startDate) on
RECURSIVE processTimeSeriesData(_, _, _)
processTimeSeriesData(events, current, endDate) ==
  IF current > endDate THEN <<>>
  ELSE <<[date |-> Day(current),
          clicks |-> Len(SelectSeq(events, LAMBDA a : Day(a.timestamp) = Day(current))),
          uniqueVisitors |-> Len(SelectSeq(events, LAMBDA a : Day(a.timestamp) = Day(current)
                                                       /\ a.isUnique))]>>
       \o processTimeSeriesData(events, current + Days(1), endDate)

\* An attribute the stored event does not have
NoAttr == "<undefined>"

\* counts = {}: what counts[key] reads.  An own property gives its value, a
\* property inherited from Object.prototype gives that object, anything else
\* undefined
InheritedKeys == {"constructor", "__proto__"}
NotANumber == 0 - 1
UndefinedCount == 0
ReadCount(counts, key) ==
  LET own == {i \in 1..Len(counts) : counts[i].key = key}
  IN  IF own # {} THEN counts[CHOOSE i \in own : TRUE].count
      ELSE IF key \in InheritedKeys THEN NotANumber
      ELSE UndefinedCount

\* (counts[key] || 0) + 1: a number is raised by one; an object or a string
\* is concatenated with "1" and is no number any more
PlusOne(v) == IF v = UndefinedCount THEN 1 ELSE IF v < 0 THEN NotANumber ELSE v + 1

\* counts[key] = v: the setter of __proto__ ignores a value that is no object
WriteCount(counts, key, v) ==
  IF key = "__proto__" THEN counts
  ELSE IF \E i \in 1..Len(counts) : counts[i].key = key
       THEN [i \in 1..Len(counts) |->
               IF counts[i].key = key THEN [key |-> key, count |-> v] ELSE counts[i]]
       ELSE Append(counts, [key |-> key, count |-> v])

\* analytics.forEach(...) then Object.entries(counts).map(...)
RECURSIVE CountKeys(_, _, _)
CountKeys(keys, i, counts) ==
  IF i > Len(keys) THEN counts
  ELSE CountKeys(keys, i + 1, WriteCount(counts, keys[i], PlusOne(ReadCount(counts, keys[i]))))

OrDefault(v, placeholder) == IF v = NoAttr \/ v = "" THEN placeholder ELSE v

processDeviceData(events) ==
  CountKeys([i \in 1..Len(events) |-> OrDefault(events[i].device, "desktop")], 1, <<>>)
processBrowserData(events) ==
  CountKeys([i \in 1..Len(events) |-> OrDefault(events[i].browser, "Unknown")], 1, <<>>)
processLocationData(events) ==
  CountKeys([i \in 1..Len(events) |-> OrDefault(events[i].country, "Unknown")], 1, <<>>)
processReferrerData(events) ==
  CountKeys([i \in 1..Len(events) |-> OrDefault(events[i].referrer, "Direct")], 1, <<>>)

ReportFrame ==
  UNCHANGED <<urls, analytics, proc, budget, faults, overlapped, succ, uvIncs,
              reg, regBudget, nextId>>

ReportReceive(r) ==
  /\ reportBudget > 0
  /\ report.pc = "idle"
  /\ reportBudget' = reportBudget - 1
  /\ report' = (r)
  /\ UNCHANGED now /\ ReportFrame

\* GET /api/analytics/url/:urlId up to its await of Url.findOne
ReceiveSummary(user, urlId, period) ==
  ReportReceive([ReportIdle EXCEPT !.pc = "findUrl", !.route = "summary", !.user = user,
                                   !.urlId = urlId, !.period = period])

\* GET /api/analytics/dashboard up to its second reading of the clock:
\* endDate = moment()
ReceiveDashboard(user, period) ==
  ReportReceive([ReportIdle EXCEPT !.pc = "startDate", !.route = "dashboard",
                                   !.user = user, !.period = period, !.endDate = now])

\* await Url.findOne({ _id: urlId, userId }), then endDate = moment()
DbFindReportUrl ==
  /\ report.pc = "findUrl"
  /\ report' = (IF OwnedBy(urls, report.urlId, report.user)
               THEN [report EXCEPT !.pc = "startDate", !.url = urls[report.urlId],
                                   !.endDate = now]
               ELSE [report EXCEPT !.pc = "respond", !.res = [status |-> 404]])
  /\ UNCHANGED <<now, reportBudget>> /\ ReportFrame

\* startDate = moment().subtract(n, 'days'): the clock is read again
ReadStartDate ==
  /\ report.pc = "startDate"
  /\ report' = (IF report.route = "summary"
               THEN [report EXCEPT !.pc = "findEvents",
                                   !.startDate = now - Days(SummaryWindow(report.period))]
               ELSE [report EXCEPT !.pc = "findUrls",
                                   !.startDate = now - Days(DashboardWindow(report.period))])
  /\ UNCHANGED <<now, reportBudget>> /\ ReportFrame

\* Url.find({ userId }), in _id order
RECURSIVE UrlsOf(_, _)
UrlsOf(store, ids) ==
  IF ids = {} THEN <<>>
  ELSE LET id == CHOOSE i \in ids : \A o \in ids : i <= o
       IN  <<store[id]>> \o UrlsOf(store, ids \ {id})

DbFindReportUrls ==
  /\ report.pc = "findUrls"
  /\ report' = ([report EXCEPT
        !.pc = "findEvents",
        !.urls = UrlsOf(urls, {id \in DOMAIN urls : urls[id].userId = report.user})])
  /\ UNCHANGED <<now, reportBudget>> /\ ReportFrame

\* The response of GET /api/analytics/url/:urlId
SummaryReport(url, events, startDate, endDate) ==
  [status |-> 200,
   totalClicks |-> url.clicks, uniqueVisitors |-> url.uniqueVisitors,
   periodClicks |-> Len(events),
   periodUniqueVisitors |-> Len(SelectSeq(events, LAMBDA a : a.isUnique)),
   timeSeries |-> processTimeSeriesData(events, startDate, endDate),
   devices |-> processDeviceData(events), browsers |-> processBrowserData(events),
   locations |-> processLocationData(events), referrers |-> processReferrerData(events)]

\* await Analytics.find(window); the summary is then computed and sent, the
\* dashboard goes on to its counts: activeUrls reads the clock in isExpired
DbFindEvents ==
  /\ report.pc = "findEvents"
  /\ LET ids == IF report.route = "summary" THEN {report.urlId}
                ELSE {report.urls[i].id : i \in 1..Len(report.urls)}
         events == FindEvents(analytics, ids, report.startDate, report.endDate)
     IN  report' = (IF report.route = "summary"
                   THEN [report EXCEPT !.pc = "respond", !.events = events,
                            !.res = SummaryReport(report.url, events,
                                                  report.startDate, report.endDate)]
                   ELSE [report EXCEPT !.pc = "expiredUrls", !.events = events,
                            !.activeUrls =
                               Len(SelectSeq(report.urls,
                                       LAMBDA u : u.isActive /\ ~isExpired(u, now)))])
  /\ UNCHANGED <<now, reportBudget>> /\ ReportFrame

\* The response of GET /api/analytics/dashboard (its counts)
DashboardReport(owned, events, activeUrls, expiredUrls) ==
  [status |-> 200, totalUrls |-> Len(owned),
   periodClicks |-> Len(events),
   periodUniqueVisitors |-> Len(SelectSeq(events, LAMBDA a : a.isUnique)),
   activeUrls |-> activeUrls, expiredUrls |-> expiredUrls]

\* expiredUrls: urls.filter(url => url.isExpired()) reads the clock again
CountExpiredUrls ==
  /\ report.pc = "expiredUrls"
  /\ report' = ([report EXCEPT
        !.pc = "recent",
        !.res = DashboardReport(report.urls, report.events, report.activeUrls,
                                Len(SelectSeq(report.urls, LAMBDA u : isExpired(u, now))))])
  /\ UNCHANGED <<now, reportBudget>> /\ ReportFrame

\* await Analytics.find(recent activity), then res.json
DbFindRecent ==
  /\ report.pc = "recent"
  /\ report' = ([report EXCEPT !.pc = "respond"])
  /\ UNCHANGED <<now, reportBudget>> /\ ReportFrame

ReportRespond ==
  /\ report.pc = "respond"
  /\ report' = (ReportIdle)
  /\ UNCHANGED <<now, reportBudget>> /\ ReportFrame

\* A stored event with the attributes the reports read
Event(urlId, timestamp, isUnique, device, browser, country, referrer) ==
  [urlId |-> urlId, visitorId |-> <<1>>, timestamp |-> timestamp, isUnique |-> isUnique,
   device |-> device, browser |-> browser, country |-> country, referrer |-> referrer]

\* The clock of the reports starts at ReportNow (the first instant of a
\* day) or one instant later
ReportNow == Days(100)

ReportTick ==
  /\ now < ReportNow + 1 + MaxDrift
  /\ now' = now + 1
  /\ UNCHANGED <<report, reportBudget>> /\ ReportFrame

\* Events of links 1 and 2 at the edges of the four windows, in the order
\* trackAnalytics stored them
EventPool ==
  << Event(1, ReportNow - Days(90), TRUE, "desktop", "Chrome", "US", "__proto__"),
     Event(1, ReportNow - Days(30), FALSE, "mobile", "Chrome", NoAttr, NoAttr),
     Event(1, ReportNow - Days(7) - 1, TRUE, "desktop", "Unknown", "US", "https://r"),
     Event(1, ReportNow - Days(7), TRUE, "desktop", "Chrome", "DE", "constructor"),
     Event(1, ReportNow - Days(1), FALSE, "desktop", "Chrome", "US", "https://r"),
     Event(2, ReportNow - 1, TRUE, "mobile", "Unknown", NoAttr, NoAttr),
     Event(1, ReportNow, TRUE, "mobile", "Chrome", "US", NoAttr) >>

RECURSIVE Picked(_, _)
Picked(pool, S) ==
  IF S = {} THEN <<>>
  ELSE LET i == CHOOSE x \in S : \A o \in S : x <= o
       IN  <<pool[i]>> \o Picked(pool, S \ {i})

MaxEvents == 2
ReportEvents ==
  { Picked(EventPool, S) : S \in {T \in SUBSET (1..Len(EventPool)) : Cardinality(T) <= MaxEvents} }

\* Two links of user 1; the first in every combination of isActive and of
\* expiresAt around the clock of the reports
ReportStores ==
  { <<[OwnedUrl(1, "h1", "h2", 1) EXCEPT !.isActive = active, !.expiresAt = e],
      OwnedUrl(2, "h3", NoAlias, 1)>> :
    active \in BOOLEAN, e \in {Null, ReportNow - 1, ReportNow, ReportNow + 1} }

InitReports ==
  /\ urls \in ReportStores
  /\ analytics \in ReportEvents
  /\ now \in {ReportNow, ReportNow + 1}
  /\ proc = <<>> /\ budget = 0 /\ faults = 0 /\ overlapped = FALSE
  /\ succ = <<>> /\ uvIncs = <<>>
  /\ reg = <<>> /\ regBudget = 0 /\ nextId = Cardinality(DOMAIN urls)
  /\ report = ReportIdle
  /\ reportBudget = ReportRequests

NextReports ==
  \/ \E user \in RegUsers, urlId \in UrlIds, period \in {"24h", "7d", "30d", "90d"} :
        ReceiveSummary(user, urlId, period)
  \/ \E user \in RegUsers, period \in {"24h", "7d", "30d", "90d"} : ReceiveDashboard(user, period)
  \/ DbFindReportUrl
  \/ ReadStartDate
  \/ DbFindReportUrls
  \/ DbFindEvents
  \/ CountExpiredUrls
  \/ DbFindRecent
  \/ ReportRespond
  \/ ReportTick

SpecReports == InitReports /\ [][NextReports]_vars

\* ------------------------------------------------------------ properties
AllIdle == \A p \in Procs : proc[p].pc = "idle"

RECURSIVE SumCounts(_, _)
SumCounts(f, S) ==
  IF S = {} THEN 0
  ELSE LET k == CHOOSE x \in S : TRUE IN f[k] + SumCounts(f, S \ {k})

\* Destinations returned so far for link id, over all visitor keys
SuccOf(id) == SumCounts(succ, {k \in DOMAIN succ : k[1] = id})

EventsOf(id) == {i \in 1..Len(analytics) : analytics[i].urlId = id}
EventsOfPair(k) ==
  {i \in 1..Len(analytics) : analytics[i].urlId = k[1] /\ analytics[i].visitorId = k[2]}
UniqueEventsOfPair(k) == {i \in EventsOfPair(k) : analytics[i].isUnique}

\* Visitor keys of requests that carry an address and a User-Agent
FullKeys == {generateVisitorId(ReqFull), generateVisitorId(ReqProxy)}

\* The handler has passed the await of Analytics.create
PastCreate(r) == r.pc \in {"afterCreate", "incUnique", "afterTrack", "updateStats", "respond"}

\* C1: once no request is in flight, every (link, visitor key) pair with at
\* least one returned destination has exactly one stored event with
\* isUnique = true and has raised uniqueVisitors exactly once (stated for
\* runs without storage faults).
C1_ExactlyOneUniquePerPair ==
  (AllIdle /\ faults = 0) =>
    \A k \in DOMAIN succ :
      succ[k] >= 1 =>
        /\ Cardinality(UniqueEventsOfPair(k)) = 1
        /\ Count(uvIncs, k) = 1

\* C2: every resolution that passes the gates appends one event, so with no
\* request in flight a link has as many events as returned destinations
\* (stated for runs without storage faults).
C2_OneEventPerResolution ==
  faults = 0 =>
    /\ \A p \in Procs :
         (proc[p].pc = "respond" /\ IsSuccess(proc[p].res)) => proc[p].inserted
    /\ AllIdle => \A id \in DOMAIN urls : Cardinality(EventsOf(id)) = SuccOf(id)

\* C3: after two successive resolutions of a link from identical request
\* attributes (and no other resolution of it), the pair has two events, the
\* first unique and the second not, uniqueVisitors = 1 and clicks = 2.
C3_SecondVisitStoredNotUnique ==
  \A k \in DOMAIN succ :
    (/\ AllIdle /\ faults = 0 /\ ~overlapped
     /\ k[2] \in FullKeys
     /\ succ[k] = 2 /\ SuccOf(k[1]) = 2)
    => /\ Cardinality(EventsOfPair(k)) = 2
       /\ \E i, j \in EventsOfPair(k) :
            i < j /\ analytics[i].isUnique /\ ~analytics[j].isUnique
       /\ urls[k[1]].uniqueVisitors = 1
       /\ urls[k[1]].clicks = 2

\* C4: when two first visits of one visitor key to one link both check for
\* an existing visit before either inserts, both events end up stored, one
\* with isUnique = true and the other with isUnique = false.
C4_LoserStillStored ==
  \A p, q \in Procs :
    (/\ p # q /\ faults = 0
     /\ PastCreate(proc[p]) /\ PastCreate(proc[q])
     /\ proc[p].url.id = proc[q].url.id
     /\ proc[p].visitorId = proc[q].visitorId
     /\ proc[p].visitorId \in FullKeys
     /\ ~proc[p].existingVisit /\ ~proc[q].existingVisit)
    => LET k == <<proc[p].url.id, proc[p].visitorId>>
       IN  /\ proc[p].inserted /\ proc[q].inserted
           /\ Cardinality(EventsOfPair(k)) = 2
           /\ Cardinality(UniqueEventsOfPair(k)) = 1

\* C5: the clicks counter of every link equals the number of resolutions of
\* it whose stats update has been applied (destinations returned, plus those
\* about to be returned); with no request in flight, clicks equals the number
\* of returned destinations.
Responding(id) ==
  {p \in Procs : proc[p].pc = "respond" /\ IsSuccess(proc[p].res) /\ proc[p].url.id = id}
C5_NoClickLost ==
  \A id \in DOMAIN urls :
    urls[id].clicks = SuccOf(id) + Cardinality(Responding(id))
C5_Witness ==
  /\ AllIdle /\ overlapped
  /\ \E id \in DOMAIN urls : urls[id].clicks = 2 /\ SuccOf(id) = 2

\* C6: in every state of every link, clicks >= uniqueVisitors >= 0.
C6_ClicksAtLeastUnique ==
  \A id \in DOMAIN urls :
    urls[id].clicks >= urls[id].uniqueVisitors /\ urls[id].uniqueVisitors >= 0

\* C7: a resolution in which an operation of trackAnalytics failed (lookup
\* of the existing visit, insert of the event, uniqueVisitors increment) still
\* goes on to the stats update and, unless that update itself fails, answers
\* with the destination; the only 500 after the gates comes from the stats
\* update.
C7_TrackingFailureSwallowed ==
  \A p \in Procs :
    /\ (proc[p].pc = "respond" /\ proc[p].trackErr # "none" /\ ~proc[p].statsErr)
         => (IsSuccess(proc[p].res) /\ proc[p].res.originalUrl = proc[p].url.originalUrl)
    /\ (proc[p].pc = "respond" /\ proc[p].gate # "none" /\ proc[p].res.status = 500)
         => proc[p].statsErr
C7_Witness ==
  \E p \in Procs :
    /\ proc[p].pc = "respond" /\ proc[p].trackErr = "storage"
    /\ IsSuccess(proc[p].res)

\* C8: a resolution whose stats update (clicks, lastAccessed) failed still
\* answers with the destination.
C8_StatsFailureStillReturns ==
  \A p \in Procs :
    (proc[p].pc = "respond" /\ proc[p].statsErr) => IsSuccess(proc[p].res)

\* A GET of a link that was found, is protected and is not expired, stopped
\* at the gates (the handler still holds the document it looked up)
AtPasswordGate(r) ==
  /\ r.pc = "respond" /\ r.route = "GET" /\ r.gate = "none"
  /\ r.url.id # 0
  /\ r.url.isPasswordProtected
  /\ ~isExpired(r.url, now)

\* C9: for an active, unexpired, password-protected link, GET without a
\* password answers 401 with requiresPassword and the link's handle, GET with
\* another password answers 401 Incorrect password, and GET with the stored
\* password returns the destination and records the visit (its event is
\* stored and clicks is raised); the last part is stated for runs without
\* storage faults.
C9_PasswordGate ==
  \A p \in Procs :
    /\ (AtPasswordGate(proc[p]) /\ NoPw(proc[p].password))
         => proc[p].res = Res(401, "Password required", shortUrl(proc[p].url), "")
    /\ (AtPasswordGate(proc[p]) /\ ~NoPw(proc[p].password)
          /\ proc[p].password # proc[p].url.password)
         => proc[p].res = Res(401, "Incorrect password", "", "")
    /\ (proc[p].pc = "respond" /\ proc[p].route = "GET"
          /\ proc[p].gate = "password" /\ faults = 0)
         => /\ proc[p].res = Res(302, "redirect", "", proc[p].url.originalUrl)
            /\ proc[p].inserted
            /\ urls[proc[p].url.id].clicks >= 1

\* C10 as claimed: a GET whose handle matches a stored link that is past its
\* expiresAt answers 410, whatever the link's isActive flag.
C10_ExpiredWhateverActive ==
  \A p \in Procs :
    (proc[p].pc = "respond" /\ proc[p].route = "GET" /\ proc[p].matchedExpired)
      => proc[p].res.status = 410

\* C10 amended: a GET answers 410 when the link its lookup returns (token or
\* alias match, isActive = true) is past its expiresAt, and 404 when the only
\* links matching the handle are inactive, expired or not.
C10_ExpiredActiveLink ==
  \A p \in Procs :
    (proc[p].pc = "respond" /\ proc[p].route = "GET") =>
      /\ proc[p].foundExpired => proc[p].res = Res(410, "This link has expired", "", "")
      /\ (proc[p].matchedExpired /\ ~proc[p].foundExpired)
           => proc[p].res = Res(404, "URL not found or inactive", "", "")
C10_Witness ==
  \E p \in Procs :
    /\ proc[p].pc = "respond" /\ proc[p].route = "GET"
    /\ proc[p].foundExpired /\ proc[p].shortId = "promo"
    /\ proc[p].url.isPasswordProtected
    /\ proc[p].res.status = 410

\* ---------------------------------------------- properties of the registry
HandlesOf(url) ==
  {url.shortId} \cup (IF url.customAlias = NoAlias THEN {} ELSE {url.customAlias})

CreateDone(r) == r.pc = "respond" /\ r.op = "create"

\* C11: in every reachable state no string is a handle of two different
\* links: the token and the alias of a link differ from the token and the
\* alias of every other stored link.
C11_NoSharedHandle ==
  \A i, j \in DOMAIN urls : i # j => HandlesOf(urls[i]) \cap HandlesOf(urls[j]) = {}

\* C12: a create whose alias is in use fails with AliasTaken and stores no
\* link, also when the alias was taken by a concurrent create between this
\* request's alias check and its save.
C12_TakenAliasIsAliasTaken ==
  \A s \in DOMAIN reg :
     CreateDone(reg[s]) =>
        /\ reg[s].dupAlias => reg[s].res = AliasTaken
        /\ reg[s].res = AliasTaken => ~reg[s].wrote

\* C13: a create whose freshly generated token collides with a stored token
\* still succeeds; no create fails because of its token.
C13_TokenCollisionRetried ==
  \A s \in DOMAIN reg :
     (CreateDone(reg[s]) /\ reg[s].dupToken) => reg[s].res.status = 201

\* C14: right after a successful create, the resolution lookup of the
\* returned handle (alias if given, else token) finds the created link.
C14_CreatedHandleResolves ==
  [][\A s \in DOMAIN reg :
        (reg[s].pc = "save" /\ reg'[s].pc = "respond" /\ reg'[s].res.status = 201)
           => FindActiveByHandle(urls', reg'[s].res.shortId).id = reg'[s].newId]_vars

\* C15: in every reachable state a link has a stored password if and only
\* if its isPasswordProtected flag is true.
C15_PasswordIffProtected ==
  \A id \in DOMAIN urls : (urls[id].password # NoPassword) <=> urls[id].isPasswordProtected

\* The step with which update handler s leaves its alias check or its write
AliasStep(s) ==
  /\ reg[s].op = "update" /\ reg[s].pc \in {"aliasCheck", "write"}
  /\ reg'[s].pc = "respond"
  /\ reg[s].id \in DOMAIN urls
  /\ reg[s].body.customAlias # NoAlias
  /\ reg[s].body.customAlias # urls[reg[s].id].customAlias

AliasOfOther(store, alias, ownId) ==
  \E id \in DOMAIN store \ {ownId} : alias \in HandlesOf(store[id])

\* C16: an update that changes the alias is answered AliasTaken and leaves
\* the store unchanged when the new alias is a token or alias of another
\* link, and writes only when it is not.
C16_AliasChangeRevalidated ==
  [][\A s \in DOMAIN reg :
        AliasStep(s) =>
           IF AliasOfOther(urls, reg[s].body.customAlias, reg[s].id)
           THEN reg'[s].res = AliasTaken /\ urls' = urls
           ELSE reg'[s].res # AliasTaken]_vars

AsksPasswordWithout(r) ==
  /\ r.pc = "respond" /\ r.op \in {"create", "update"}
  /\ r.body.isPasswordProtected = "true" /\ r.body.password \in {NoPassword, ""}

OwnerLookup(s) ==
  /\ reg[s].pc \in {"findOwn", "delete"}
  /\ reg'[s] # reg[s]

C19_EventsAppendOnly ==
  [][/\ Len(analytics') >= Len(analytics)
     /\ \A i \in 1..Len(analytics) : analytics'[i] = analytics[i]]_vars

\* An event outlives the link it was recorded for
C19_Witness ==
  \E i \in 1..Len(analytics) :
     /\ analytics[i].urlId \notin DOMAIN urls
     /\ analytics[i].isUnique

\* C20: with a non-empty password, verify-password decides as resolution
\* does: on the link its lookup returned it answers what GET answers
\* (NotFound, Expired, PasswordIncorrect) or goes on to the recording, also
\* for a link that is not password-protected.
C20_VerifyAsResolution ==
  [][\A p \in Procs :
        (proc[p].pc = "gates" /\ proc[p].route = "POST" /\ proc'[p] # proc[p])
           => LET g == GateResponse("GET", proc[p].url, proc[p].password, now) IN
              IF g = NoRes THEN proc'[p].pc = "findVisit"
              ELSE proc'[p].pc = "respond" /\ proc'[p].res = g]_vars

\* ------------------------------------- properties of resolution over time
\* Resolution handler p decides its gates in this step on a link it found
GateStep(p) ==
  /\ proc[p].pc = "gates" /\ proc'[p].pc # "gates"
  /\ proc[p].url.id # 0

\* C21: create stores the expiresAt it is given, also one in the past; a
\* resolution that finds the link answers Expired exactly when the clock is
\* past the link's expiresAt, and goes on to its password gate while
\* now <= expiresAt.
C21_ExpiredOnlyAfterExpiresAt ==
  /\ [](\A s \in DOMAIN reg :
          (CreateDone(reg[s]) /\ reg[s].res.status = 201)
             => urls[reg[s].newId].expiresAt = ToDate(reg[s].body.expiresAt))
  /\ [][\A p \in Procs :
          GateStep(p) =>
             ((proc'[p].res.status = 410)
                <=> (proc[p].url.expiresAt # Null /\ now > proc[p].url.expiresAt))]_vars

\* A link created with expiresAt before the clock's first instant was
\* stored and its resolution is answered Expired
C21_Witness ==
  \E p \in Procs :
     /\ proc[p].pc = "respond" /\ proc[p].res.status = 410
     /\ proc[p].url.id = 2 /\ proc[p].url.expiresAt = 0

\* C22: the lookup hands resolution the stored link that has the handle; a
\* GET that finds an active, unexpired link without password protection
\* passes the gates and, unless its stats update fails, returns the
\* destination of that link; the first returned destination of a link
\* created in this run without alias and password is the one stored at its
\* creation and leaves clicks = 1.
C22_OpenLinkResolves ==
  /\ [][\A p \in Procs :
          /\ (proc[p].pc = "findUrl" /\ proc'[p].pc = "gates" /\ proc'[p].url.id # 0)
                => /\ proc'[p].url = urls[proc'[p].url.id]
                   /\ HandleMatches(proc'[p].url, proc[p].shortId)
          /\ (GateStep(p) /\ proc[p].route = "GET" /\ ~proc[p].url.isPasswordProtected
                /\ ~(proc[p].url.expiresAt # Null /\ now > proc[p].url.expiresAt))
                => /\ proc'[p].pc = "findVisit"
                   /\ proc'[p].url.originalUrl = proc[p].url.originalUrl]_vars
  /\ [](\A p \in Procs :
          (proc[p].pc = "respond" /\ proc[p].gate = "open" /\ proc[p].route = "GET") =>
             /\ ~proc[p].statsErr =>
                   proc[p].res = Res(302, "redirect", "", proc[p].url.originalUrl)
             /\ (IsSuccess(proc[p].res) /\ proc[p].url.id \in DOMAIN urls)
                   => urls[proc[p].url.id].clicks >= 1
             /\ (IsSuccess(proc[p].res) /\ proc[p].url.id = 2 /\ 2 \in DOMAIN urls
                   /\ SuccOf(2) = 0)
                   => /\ urls[2].clicks = 1
                      /\ proc[p].res.originalUrl = urls[2].originalUrl)

\* The first resolution of a link created without alias and password
\* returns its destination
C22_Witness ==
  \E p \in Procs :
     /\ proc[p].pc = "respond" /\ proc[p].route = "GET" /\ IsSuccess(proc[p].res)
     /\ proc[p].url.id = 2 /\ 2 \in DOMAIN urls
     /\ urls[2].customAlias = NoAlias /\ ~urls[2].isPasswordProtected
     /\ urls[2].clicks = 1 /\ proc[p].res.originalUrl = "https://c"

\* ------------------------------------------------ properties of visitor keys
\* The handler has computed its visitor key
HasKey(r) == r.gate # "none"

\* The three inputs of the key as the request gives them
KeyInputs(req) ==
  <<IF req.ip = Undefined \/ req.ip = <<>> THEN req.remoteAddress ELSE req.ip,
    req.userAgent, req.acceptLanguage>>

EmptyIfAbsent(v) == IF v = Undefined THEN <<>> ELSE v

\* The request with every absent input given as the empty string
WithEmptyInputs(req) ==
  LET k == KeyInputs(req) IN
  [ip |-> EmptyIfAbsent(k[1]), remoteAddress |-> EmptyIfAbsent(k[1]),
   userAgent |-> EmptyIfAbsent(k[2]), acceptLanguage |-> EmptyIfAbsent(k[3])]

\* C24: every handler gets a key, and it is the key of the request that
\* gives each absent input as the empty string.
C24_AbsentAsEmpty ==
  \A p \in Procs :
     HasKey(proc[p]) =>
        /\ Len(proc[p].visitorId) > 0
        /\ proc[p].visitorId = generateVisitorId(WithEmptyInputs(proc[p].req))

\* ------------------------------------------------ order of the gates
ActiveMatches(store, shortId) ==
  {id \in DOMAIN store : store[id].isActive
                          /\ (store[id].shortId = shortId \/ store[id].customAlias = shortId)}

\* C28: GET decides in the order lookup, expiration, password: a handle
\* that matches no active link is answered NotFound; a found link past its
\* expiresAt is answered Expired whatever its protection and the password
\* supplied; 401 is answered only for a found link that is not expired.
C28_GateOrder ==
  [][\A p \in Procs :
        /\ (proc[p].pc = "findUrl" /\ proc'[p].pc = "gates")
              => (proc'[p].url.id = 0 <=> ActiveMatches(urls, proc[p].shortId) = {})
        /\ (proc[p].pc = "gates" /\ proc'[p].pc # "gates" /\ proc[p].route = "GET")
              => LET url == proc[p].url
                     past == url.id # 0 /\ url.expiresAt # Null /\ now > url.expiresAt
                 IN  /\ url.id = 0 => proc'[p].res.status = 404
                     /\ past => proc'[p].res.status = 410
                     /\ proc'[p].res.status = 401 => (url.id # 0 /\ ~past)
                     /\ proc'[p].res.status = 404 => url.id = 0]_vars

\* An expired, password-protected link asked for with a wrong password or
\* none is answered Expired
C28_Witness ==
  \E p \in Procs :
     /\ proc[p].pc = "respond" /\ proc[p].route = "GET" /\ proc[p].res.status = 410
     /\ proc[p].url.isPasswordProtected
     /\ proc[p].password # proc[p].url.password

\* C29: clicks and uniqueVisitors of a stored link never decrease, across
\* every step of resolution, verify-password, create, update and delete of
\* other links.
C29_CountersMonotone ==
  [][\A id \in DOMAIN urls :
        id \in DOMAIN urls' =>
           /\ urls'[id].clicks >= urls[id].clicks
           /\ urls'[id].uniqueVisitors >= urls[id].uniqueVisitors]_vars

\* An owner update has written a link that has counted a click and a visitor
C29_Witness ==
  \E s \in DOMAIN reg :
     /\ reg[s].pc = "respond" /\ reg[s].op = "update" /\ reg[s].wrote
     /\ reg[s].id \in DOMAIN urls
     /\ urls[reg[s].id].clicks >= 1 /\ urls[reg[s].id].uniqueVisitors >= 1


\* ------------------------------------------------ properties of the reports
\* The window of each period, in days
PeriodDays(period) ==
  CASE period = "24h" -> 1
    [] period = "7d"  -> 7
    [] period = "30d" -> 30
    [] period = "90d" -> 90

\* A report that is about to be sent with its counts
Reported(route) ==
  /\ report.pc = "respond"
  /\ report.route = route
  /\ report.res.status = 200

\* The instants the handler of the report has read the clock at or between
QueryTimes == report.endDate..now

\* C25: the time series of a summary has one bucket for each calendar day
\* from the day of now - window to the day of now, in order and without
\* gaps; now is the instant the request's window ends at.
C25_OneBucketPerDay ==
  Reported("summary") =>
    LET series == report.res.timeSeries
        first == Day(report.endDate - Days(PeriodDays(report.period)))
        last == Day(report.endDate)
    IN  /\ Len(series) = last - first + 1
        /\ \A i \in 1..Len(series) : series[i].date = first + i - 1
        /\ \E i \in 1..Len(series) : series[i].date = last

RECURSIVE BreakdownTotal(_)
BreakdownTotal(b) == IF b = <<>> THEN 0 ELSE Head(b).count + BreakdownTotal(Tail(b))

Label(v, placeholder) == IF v = NoAttr THEN placeholder ELSE v

\* A breakdown that counts every label once under its own key
CountsEach(b, labels) ==
  /\ \A i, j \in 1..Len(b) : i # j => b[i].key # b[j].key
  /\ \A n \in 1..Len(labels) : \E i \in 1..Len(b) : b[i].key = labels[n]
  /\ \A i \in 1..Len(b) :
        b[i].count = Cardinality({n \in 1..Len(labels) : labels[n] = b[i].key})
  /\ BreakdownTotal(b) = Len(labels)

\* C26: each breakdown of a summary counts every event of the window once,
\* under its attribute or under the placeholder of the breakdown, so its
\* counts sum to periodClicks and no key appears twice.
C26_BreakdownsCountEachEvent ==
  Reported("summary") =>
    LET ev == report.events
        n == Len(ev)
    IN  /\ report.res.periodClicks = n
        /\ CountsEach(report.res.devices, [i \in 1..n |-> Label(ev[i].device, "desktop")])
        /\ CountsEach(report.res.browsers, [i \in 1..n |-> Label(ev[i].browser, "Unknown")])
        /\ CountsEach(report.res.locations, [i \in 1..n |-> Label(ev[i].country, "Unknown")])
        /\ CountsEach(report.res.referrers, [i \in 1..n |-> Label(ev[i].referrer, "Direct")])

ExpiredAt(u, t) == u.expiresAt # Null /\ u.expiresAt < t

\* C27: for one query time, expiredUrls counts the owner's links whose
\* expiresAt is set and earlier, activeUrls those with isActive that are
\* not expired; so activeUrls + expiredUrls <= totalUrls.
C27_ActiveAndExpiredCounts ==
  Reported("dashboard") =>
    /\ \E t \in QueryTimes :
          /\ report.res.expiredUrls = Len(SelectSeq(report.urls, LAMBDA u : ExpiredAt(u, t)))
          /\ report.res.activeUrls =
                Len(SelectSeq(report.urls, LAMBDA u : u.isActive /\ ~ExpiredAt(u, t)))
    /\ report.res.activeUrls + report.res.expiredUrls <= report.res.totalUrls

\* The links a report is about
ReportedIds ==
  IF report.route = "summary" THEN {report.urlId}
  ELSE {id \in DOMAIN urls : urls[id].userId = report.user}

\* C30: for each of the four periods, a summary and a dashboard count as
\* period events the stored events with a timestamp in [now - window, now],
\* the window being the period's own (1, 7, 30, 90 days).
C30_PeriodEventsInOwnWindow ==
  (report.pc = "respond" /\ report.res.status = 200) =>
    \E t \in QueryTimes :
       LET inWindow == FindEvents(analytics, ReportedIds,
                                  t - Days(PeriodDays(report.period)), t)
       IN  /\ report.events = inWindow
           /\ report.res.periodClicks = Len(inWindow)


\* ------------------------------------------- properties of refused requests
\* NotFound, Expired, PasswordRequired and PasswordIncorrect
Refused(res) == res.status \in {404, 410, 401}

\* C31: a request answered NotFound, Expired, PasswordRequired or
\* PasswordIncorrect has passed no gate and has written nothing (no event,
\* no increment), and every step taken while no handler has passed the gates
\* leaves the links and the events as they were.
C31_RefusedChangesNothing ==
  /\ [](\A p \in Procs :
          (proc[p].pc = "respond" /\ Refused(proc[p].res)) =>
             /\ proc[p].gate = "none"
             /\ ~proc[p].inserted /\ ~proc[p].uvInc
             /\ proc[p].lastAccessed = Null)
  /\ [][(\A p \in Procs : proc'[p].gate = "none") => UNCHANGED <<urls, analytics>>]_vars
C31_Witness ==
  \E p \in Procs :
    /\ proc[p].pc = "respond" /\ proc[p].res.status = 401
    /\ proc[p].url.id = 1
    /\ urls[1].clicks = 1 /\ urls[1].uniqueVisitors = 1 /\ Len(analytics) = 1


\* Stored events of link id with isUnique = true
UniqueEventsOf(id) == {i \in EventsOf(id) : analytics[i].isUnique}

\* Visitor keys that have been returned the destination of link id
ResolvedKeys(id) == {k \in DOMAIN succ : k[1] = id /\ succ[k] >= 1}

\* C32: with no resolution in flight and no failed storage operation, the
\* uniqueVisitors counter of every link equals the number of its stored
\* events with isUnique = true, and that equals the number of distinct
\* visitor keys that have resolved the link.
C32_UniqueVisitorsIsDistinctKeys ==
  (AllIdle /\ faults = 0) =>
    \A id \in DOMAIN urls :
      /\ urls[id].uniqueVisitors = Cardinality(UniqueEventsOf(id))
      /\ Cardinality(UniqueEventsOf(id)) = Cardinality(ResolvedKeys(id))


\* C33: no step replaces a stored lastAccessed by an earlier instant, and
\* once a resolution has written its instant the stored value is not earlier
\* than it (so after concurrent resolutions it is the latest they took).
C33_LastAccessedNeverBackwards ==
  /\ [][\A id \in DOMAIN urls :
          (id \in DOMAIN urls' /\ urls[id].lastAccessed # Null) =>
             /\ urls'[id].lastAccessed # Null
             /\ urls'[id].lastAccessed >= urls[id].lastAccessed]_vars
  /\ [](\A p \in Procs :
          (/\ proc[p].pc = "respond" /\ IsSuccess(proc[p].res)
           /\ proc[p].url.id \in DOMAIN urls)
          => urls[proc[p].url.id].lastAccessed >= proc[p].lastAccessed)


RECURSIVE TotalOf(_, _)
TotalOf(series, field) ==
  IF series = <<>> THEN 0 ELSE Head(series)[field] + TotalOf(Tail(series), field)

\* C34: in a summary every event counted in periodClicks lies in exactly one
\* bucket of the time series, so the buckets' clicks sum to periodClicks and
\* their uniqueVisitors to periodUniqueVisitors.
C34_BucketsSumToPeriod ==
  Reported("summary") =>
    LET series == report.res.timeSeries
    IN  /\ \A n \in 1..Len(report.events) :
              Cardinality({i \in 1..Len(series) :
                             series[i].date = Day(report.events[n].timestamp)}) = 1
        /\ TotalOf(series, "clicks") = report.res.periodClicks
        /\ TotalOf(series, "uniqueVisitors") = report.res.periodUniqueVisitors


\* ------------------------------------------------- properties of the update
\* The fields an update is not given keep their values from before to after
KeepsUngiven(before, after, body) ==
  /\ body.originalUrl = "" => after.originalUrl = before.originalUrl
  /\ body.customAlias = NoAlias => after.customAlias = before.customAlias
  /\ body.expiresAt = AbsentDate => after.expiresAt = before.expiresAt
  /\ body.isPasswordProtected = "undef" =>
        after.isPasswordProtected = before.isPasswordProtected
  /\ body.password = NoPassword => after.password = before.password

\* Token, owner, isActive, the counters and lastAccessed are the same
KeepsFrame(before, after) ==
  /\ after.id = before.id
  /\ after.shortId = before.shortId
  /\ after.userId = before.userId
  /\ after.isActive = before.isActive
  /\ after.clicks = before.clicks
  /\ after.uniqueVisitors = before.uniqueVisitors
  /\ after.lastAccessed = before.lastAccessed

\* C35: the write of an owner update changes, of its link, only fields the
\* body gives among destination, alias, expiresAt, isPasswordProtected and
\* password, and changes no other link; token, owner, isActive, clicks,
\* uniqueVisitors and lastAccessed stay, and with resolutions running next
\* to it every click applied is still counted.
C35_UpdateWritesGivenFieldsOnly ==
  /\ [][\A s \in DOMAIN reg :
          (reg[s].op = "update" /\ reg[s].pc = "write" /\ reg'[s].pc = "respond") =>
             /\ DOMAIN urls' = DOMAIN urls
             /\ \A id \in DOMAIN urls :
                   IF id = reg[s].id
                   THEN /\ KeepsFrame(urls[id], urls'[id])
                        /\ KeepsUngiven(urls[id], urls'[id], reg[s].body)
                   ELSE urls'[id] = urls[id]]_vars
  /\ [](\A id \in DOMAIN urls :
          urls[id].clicks = SuccOf(id) + Cardinality(Responding(id)))
\* An update that gives a field has written a link while a resolution of the
\* same link, past its tracking, waits for its stats update
C35_Witness ==
  \E s \in DOMAIN reg, p \in Procs :
     /\ reg[s].pc = "respond" /\ reg[s].op = "update" /\ reg[s].wrote
     /\ reg[s].body # NoBody
     /\ proc[p].pc = "updateStats" /\ proc[p].url.id = reg[s].id
     /\ reg[s].id \in DOMAIN urls /\ urls[reg[s].id].uniqueVisitors = 1


\* ---------------------------------------------- properties of the responses
\* The statuses of NotFound, Expired, PasswordRequired and PasswordIncorrect,
\* of the two 400 answers of verify-password, of success and of server error
ResponseStatuses == {404, 410, 401, 400, 302, 200, 500}

\* C36: every resolution and verify-password request ends with exactly one
\* response: a handler has a response exactly when it is about to send it,
\* nothing replaces a response once it is set, and, every storage call
\* returning or failing, a request in flight leads to its response and the
\* handler becomes free again.
C36_ExactlyOneResponse ==
  /\ [](\A p \in 1..GateSlots :
          /\ (proc[p].pc = "respond") <=> (proc[p].res # NoRes)
          /\ proc[p].pc = "respond" => proc[p].res.status \in ResponseStatuses)
  /\ [][\A p \in 1..GateSlots :
          proc[p].res # NoRes => (proc'[p] = proc[p] \/ proc'[p] = Idle)]_vars
  /\ \A p \in 1..GateSlots :
        /\ (proc[p].pc # "idle") ~> (proc[p].pc = "respond")
        /\ (proc[p].pc = "respond") ~> (proc[p].pc = "idle")
\* A request whose trackAnalytics hit a storage failure has its response
C36_Witness ==
  \E p \in Procs :
    /\ proc[p].pc = "respond" /\ proc[p].res # NoRes
    /\ proc[p].route = "POST" /\ proc[p].trackErr = "storage"
    /\ budget = 0

====
